---- MODULE Spec2Model ----
(***************************************************************************)
(* LexNum: conversion of monetary amounts to their written Spanish form.   *)
(*                                                                         *)
(* A Python str is a sequence of one-character strings.  An accented       *)
(* letter is written as the letter followed by an apostrophe inside one    *)
(* element ("u'" is U+00FA, "U'" is U+00DA); the element "'" alone is the  *)
(* combining acute accent U+0301 that NFKD splits off.                     *)
(*                                                                         *)
(* A Python float is kept as the exact decimal it was written as,          *)
(* [cls |-> "fin", mant |-> m, scale |-> k] = m / 10^k, or as "inf",       *)
(* "-inf", "nan".  The binary representation error of a float is not       *)
(* modelled: a cents value that lies exactly on a decimal tie (x.yz5) is   *)
(* rounded here as Python rounds the exact tie.                            *)
(*                                                                         *)
(* num2words is a third-party library: its Spanish cardinals are built     *)
(* here by the library's merge rules, for integers below one million.      *)
(* Messages are written without their accents.                             *)
(***************************************************************************)
EXTENDS Integers, Sequences, FiniteSets, TLC

VARIABLES op, valor, salida, df, archivo

vars == <<op, valor, salida, df, archivo>>

\* ------------------------------------------------------------- bounds
\* longest generated input text
MaxLen == 3
\* most columns of a generated dataset
MaxCols == 2
\* most rows of a generated dataset
MaxRows == 2

\* ------------------------------------------------------------- constants
DECIMAL_PRECISION == 100

CURRENCY_SUFFIX == <<"M", ".", "N", ".">>

CURRENCY_SYMBOLS == << <<"$">>, <<"M", "X", "N">>, <<"M", ".", "N", ".">>, <<"M", "N">>, <<",">> >>

\* ------------------------------------------------------------- str methods
IsSpace(c) == c \in {" ", "\t"}

RECURSIVE LStrip(_)
LStrip(s) == IF s # <<>> /\ IsSpace(Head(s)) THEN LStrip(Tail(s)) ELSE s

RECURSIVE RStrip(_)
RStrip(s) ==
    IF s # <<>> /\ IsSpace(s[Len(s)]) THEN RStrip(SubSeq(s, 1, Len(s) - 1)) ELSE s

\* str.strip(): leading and trailing whitespace removed
Strip(s) == RStrip(LStrip(s))

StartsWith(s, p) == Len(s) >= Len(p) /\ SubSeq(s, 1, Len(p)) = p

\* str.replace(old, new): every non-overlapping occurrence, scanning left to right
RECURSIVE Replace(_, _, _)
Replace(s, old, new) ==
    IF Len(s) < Len(old) THEN s
    ELSE IF StartsWith(s, old)
         THEN new \o Replace(SubSeq(s, Len(old) + 1, Len(s)), old, new)
         ELSE <<Head(s)>> \o Replace(Tail(s), old, new)

LowerLetters ==
    <<"a", "b", "c", "d", "e", "f", "g", "h", "i", "j", "k", "l", "m", "n", "o", "p", "q", "r", "s", "t", "u", "v", "w", "x", "y", "z", "e'", "o'", "u'">>

UpperLetters ==
    <<"A", "B", "C", "D", "E", "F", "G", "H", "I", "J", "K", "L", "M", "N", "O", "P", "Q", "R", "S", "T", "U", "V", "W", "X", "Y", "Z", "E'", "O'", "U'">>

\* str.upper() and str.lower(), one character
UpperChar(c) ==
    IF \E i \in 1..Len(LowerLetters) : LowerLetters[i] = c
    THEN UpperLetters[CHOOSE i \in 1..Len(LowerLetters) : LowerLetters[i] = c]
    ELSE c

LowerChar(c) ==
    IF \E i \in 1..Len(UpperLetters) : UpperLetters[i] = c
    THEN LowerLetters[CHOOSE i \in 1..Len(UpperLetters) : UpperLetters[i] = c]
    ELSE c

Upper(s) == [i \in 1..Len(s) |-> UpperChar(s[i])]

Lower(s) == [i \in 1..Len(s) |-> LowerChar(s[i])]

\* ------------------------------------------------------------- numbers
Digits == <<"0", "1", "2", "3", "4", "5", "6", "7", "8", "9">>

IsDigit(c) == \E i \in 1..10 : Digits[i] = c

DigitVal(c) == (CHOOSE i \in 1..10 : Digits[i] = c) - 1

RECURSIVE Pow10(_)
Pow10(k) == IF k = 0 THEN 1 ELSE 10 * Pow10(k - 1)

RECURSIVE NatStr(_)
NatStr(n) == IF n < 10 THEN <<Digits[n + 1]>> ELSE NatStr(n \div 10) \o <<Digits[(n % 10) + 1]>>

\* str(int)
IntStr(n) == IF n < 0 THEN <<"-">> \o NatStr(-n) ELSE NatStr(n)

RECURSIVE DigitsVal(_)
DigitsVal(s) == IF s = <<>> THEN 0 ELSE 10 * DigitsVal(SubSeq(s, 1, Len(s) - 1)) + DigitVal(s[Len(s)])

AllDigits(s) == \A i \in 1..Len(s) : IsDigit(s[i])

RECURSIVE Normal(_, _)
Normal(m, k) == IF k > 0 /\ m % 10 = 0 THEN Normal(m \div 10, k - 1) ELSE [cls |-> "fin", mant |-> m, scale |-> k]

Inf == [cls |-> "inf", mant |-> 0, scale |-> 0]

NegInf == [cls |-> "-inf", mant |-> 0, scale |-> 0]

NaN == [cls |-> "nan", mant |-> 0, scale |-> 0]

NoFloat == [cls |-> "ValueError", mant |-> 0, scale |-> 0]

\* the unsigned part of a float literal: digits, digits "." digits, "." digits, digits "."
ParseUnsigned(s, sign) ==
    LET dots == {i \in 1..Len(s) : s[i] = "."}
    IN  IF Lower(s) \in {<<"i", "n", "f">>, <<"i", "n", "f", "i", "n", "i", "t", "y">>}
        THEN (IF sign < 0 THEN NegInf ELSE Inf)
        ELSE IF Lower(s) = <<"n", "a", "n">> THEN NaN
        ELSE IF dots = {}
        THEN (IF s # <<>> /\ AllDigits(s) THEN Normal(sign * DigitsVal(s), 0) ELSE NoFloat)
        ELSE IF Cardinality(dots) > 1 THEN NoFloat
        ELSE LET d == CHOOSE i \in dots : TRUE
                 ip == SubSeq(s, 1, d - 1)
                 fp == SubSeq(s, d + 1, Len(s))
             IN  IF AllDigits(ip) /\ AllDigits(fp) /\ Len(ip) + Len(fp) > 0
                 THEN Normal(sign * DigitsVal(ip \o fp), Len(fp))
                 ELSE NoFloat

\* float(str) on the characters of this model (no exponent, no underscore):
\* a number, or cls = "ValueError"
ParseFloat(s) ==
    LET t == Strip(s)
    IN  IF t = <<>> THEN NoFloat
        ELSE IF Head(t) = "-" THEN ParseUnsigned(Tail(t), -1)
        ELSE IF Head(t) = "+" THEN ParseUnsigned(Tail(t), 1)
        ELSE ParseUnsigned(t, 1)

\* str(float) of a finite float of ordinary magnitude, and of inf and nan
FloatStr(x) ==
    IF x.cls = "inf" THEN <<"i", "n", "f">>
    ELSE IF x.cls = "-inf" THEN <<"-", "i", "n", "f">>
    ELSE IF x.cls = "nan" THEN <<"n", "a", "n">>
    ELSE LET a == IF x.mant < 0 THEN -x.mant ELSE x.mant
             ip == a \div Pow10(x.scale)
             fr == a % Pow10(x.scale)
             fs == NatStr(fr)
             pad == [i \in 1..(x.scale - Len(fs)) |-> "0"]
         IN  (IF x.mant < 0 THEN <<"-">> ELSE <<>>) \o NatStr(ip) \o <<".">>
             \o (IF x.scale = 0 THEN <<"0">> ELSE pad \o fs)

\* ------------------------------------------------------------- raw inputs
\* a raw input value: None, a str, an int or a float
RawNone == [kind |-> "None", s |-> <<>>, x |-> NaN]

RawStr(s) == [kind |-> "str", s |-> s, x |-> NaN]

RawInt(n) == [kind |-> "int", s |-> <<>>, x |-> Normal(n, 0)]

RawFloat(x) == [kind |-> "float", s |-> <<>>, x |-> x]

\* str(value)
Str(value) ==
    CASE value.kind = "str" -> value.s
      [] value.kind = "int" -> IntStr(value.x.mant)
      [] value.kind = "float" -> FloatStr(value.x)
      [] OTHER -> <<"N", "o", "n", "e">>

\* ------------------------------------------------------------- clean_num
\* the loop left after its first symbol
StripFirstSymbol(s, symbols) ==
    IF symbols = <<>> THEN s ELSE Replace(s, Head(symbols), <<>>)

\* the loop over the symbols: each symbol's occurrences removed, one symbol after another
RECURSIVE StripSymbols(_, _)
StripSymbols(s, symbols) ==
    IF symbols = <<>> THEN s
    ELSE StripSymbols(Replace(s, Head(symbols), <<>>), Tail(symbols))

\* value_str when the float conversion is reached
CleanStr(value) == Strip(StripSymbols(Strip(Str(value)), CURRENCY_SYMBOLS))

\* value in (None, "", " ")
IsBlankValue(value) ==
    value.kind = "None" \/ (value.kind = "str" /\ value.s \in {<<>>, <<" ">>})

\* clean_num without the test that the stripped text is empty
clean_num_sin_vacio(value) ==
    IF IsBlankValue(value)
    THEN [exc |-> "none", ret |-> "None", num |-> NaN, value_str |-> <<>>]
    ELSE LET value_str == CleanStr(value)
             f == ParseFloat(value_str)
         IN  IF f.cls = "ValueError"
             THEN [exc |-> "ValueError", ret |-> "None", num |-> NaN, value_str |-> value_str]
             ELSE [exc |-> "none", ret |-> "float", num |-> f, value_str |-> value_str]

\* clean_num(value): ret "None", or ret "float" with num, or exc "ValueError"
clean_num(value) ==
    IF IsBlankValue(value)
    THEN [exc |-> "none", ret |-> "None", num |-> NaN, value_str |-> <<>>]
    ELSE LET value_str == CleanStr(value)
             f == ParseFloat(value_str)
         IN  IF value_str = <<>>
             THEN [exc |-> "none", ret |-> "None", num |-> NaN, value_str |-> value_str]
             ELSE IF f.cls = "ValueError"
             THEN [exc |-> "ValueError", ret |-> "None", num |-> NaN, value_str |-> value_str]
             ELSE [exc |-> "none", ret |-> "float", num |-> f, value_str |-> value_str]

\* ------------------------------------------------------------- num2words(n, lang="es")
low_numwords ==
    << <<"c", "e", "r", "o">>,
       <<"u", "n", "o">>,
       <<"d", "o", "s">>,
       <<"t", "r", "e", "s">>,
       <<"c", "u", "a", "t", "r", "o">>,
       <<"c", "i", "n", "c", "o">>,
       <<"s", "e", "i", "s">>,
       <<"s", "i", "e", "t", "e">>,
       <<"o", "c", "h", "o">>,
       <<"n", "u", "e", "v", "e">>,
       <<"d", "i", "e", "z">>,
       <<"o", "n", "c", "e">>,
       <<"d", "o", "c", "e">>,
       <<"t", "r", "e", "c", "e">>,
       <<"c", "a", "t", "o", "r", "c", "e">>,
       <<"q", "u", "i", "n", "c", "e">>,
       <<"d", "i", "e", "c", "i", "s", "e'", "i", "s">>,
       <<"d", "i", "e", "c", "i", "s", "i", "e", "t", "e">>,
       <<"d", "i", "e", "c", "i", "o", "c", "h", "o">>,
       <<"d", "i", "e", "c", "i", "n", "u", "e", "v", "e">>,
       <<"v", "e", "i", "n", "t", "e">>,
       <<"v", "e", "i", "n", "t", "i", "u", "n", "o">>,
       <<"v", "e", "i", "n", "t", "i", "d", "o'", "s">>,
       <<"v", "e", "i", "n", "t", "i", "t", "r", "e'", "s">>,
       <<"v", "e", "i", "n", "t", "i", "c", "u", "a", "t", "r", "o">>,
       <<"v", "e", "i", "n", "t", "i", "c", "i", "n", "c", "o">>,
       <<"v", "e", "i", "n", "t", "i", "s", "e'", "i", "s">>,
       <<"v", "e", "i", "n", "t", "i", "s", "i", "e", "t", "e">>,
       <<"v", "e", "i", "n", "t", "i", "o", "c", "h", "o">>,
       <<"v", "e", "i", "n", "t", "i", "n", "u", "e", "v", "e">> >>

tens_numwords ==
    << <<"t", "r", "e", "i", "n", "t", "a">>,
       <<"c", "u", "a", "r", "e", "n", "t", "a">>,
       <<"c", "i", "n", "c", "u", "e", "n", "t", "a">>,
       <<"s", "e", "s", "e", "n", "t", "a">>,
       <<"s", "e", "t", "e", "n", "t", "a">>,
       <<"o", "c", "h", "e", "n", "t", "a">>,
       <<"n", "o", "v", "e", "n", "t", "a">> >>

hundreds_numwords ==
    << <<"c", "i", "e", "n", "t", "o">>,
       <<"d", "o", "s", "c", "i", "e", "n", "t", "o", "s">>,
       <<"t", "r", "e", "s", "c", "i", "e", "n", "t", "o", "s">>,
       <<"c", "u", "a", "t", "r", "o", "c", "i", "e", "n", "t", "o", "s">>,
       <<"q", "u", "i", "n", "i", "e", "n", "t", "o", "s">>,
       <<"s", "e", "i", "s", "c", "i", "e", "n", "t", "o", "s">>,
       <<"s", "e", "t", "e", "c", "i", "e", "n", "t", "o", "s">>,
       <<"o", "c", "h", "o", "c", "i", "e", "n", "t", "o", "s">>,
       <<"n", "o", "v", "e", "c", "i", "e", "n", "t", "o", "s">> >>

\* the cardinal of 0 <= n < 1000000, as num2words' Spanish merge rules build it
RECURSIVE Cardinal(_)
Cardinal(n) ==
    IF n < 30 THEN low_numwords[n + 1]
    ELSE IF n < 100
    THEN tens_numwords[(n \div 10) - 2]
         \o (IF n % 10 = 0 THEN <<>> ELSE <<" ", "y", " ">> \o low_numwords[(n % 10) + 1])
    ELSE IF n = 100 THEN <<"c", "i", "e", "n">>
    ELSE IF n < 1000
    THEN (IF n % 100 = 0 THEN hundreds_numwords[n \div 100]
          ELSE hundreds_numwords[n \div 100] \o <<" ">> \o Cardinal(n % 100))
    ELSE (IF n \div 1000 = 1 THEN <<"m", "i", "l">>
          ELSE Cardinal(n \div 1000) \o <<" ", "m", "i", "l">>)
         \o (IF n % 1000 = 0 THEN <<>> ELSE <<" ">> \o Cardinal(n % 1000))

num2words(n) == IF n < 0 THEN <<"m", "e", "n", "o", "s", " ">> \o Cardinal(-n) ELSE Cardinal(n)

\* ------------------------------------------------------------- numero_a_texto
\* int(numero) of a finite float: truncation toward zero
IntOf(x) ==
    IF x.mant >= 0 THEN x.mant \div Pow10(x.scale) ELSE -((-x.mant) \div Pow10(x.scale))

\* round(p / q) for q > 0: to the nearest integer, a tie to the even one
RoundHalfEven(p, q) ==
    LET a == IF p < 0 THEN -p ELSE p
        fl == a \div q
        r == 2 * (a % q)
        up == r > q \/ (r = q /\ fl % 2 = 1)
        m == IF up THEN fl + 1 ELSE fl
    IN  IF p < 0 THEN -m ELSE m

\* round((numero - parte_entera) * DECIMAL_PRECISION)
ParteDecimal(x) ==
    RoundHalfEven((x.mant - IntOf(x) * Pow10(x.scale)) * DECIMAL_PRECISION, Pow10(x.scale))

\* f"{n:02d}": at least two characters, zero-padded, the sign counted in the width
Format02d(n) ==
    IF n < 0 THEN <<"-">> \o NatStr(-n)
    ELSE IF n < 10 THEN <<"0">> \o NatStr(n)
    ELSE NatStr(n)

\* the first replacement alone
NormalizarUnoMedio(texto) ==
    Replace(texto, <<" ", "U", "N", "O", " ">>, <<" ", "U", "N", " ">>)

\* the three chained replacements of "UNO"
NormalizarUno(texto) ==
    Replace(Replace(Replace(texto, <<" ", "U", "N", "O", " ">>, <<" ", "U", "N", " ">>),
                    <<"U", "N", "O", " ">>, <<"U", "N", " ">>),
            <<" ", "U", "N", "O">>, <<" ", "U", "N">>)

SufijoCentavos(parte_decimal) ==
    Format02d(parte_decimal) \o <<"/", "1", "0", "0", " ">> \o CURRENCY_SUFFIX

\* the special case taken for 0 and for negative integer parts too
EsUnPesoOMenos(parte_entera) == parte_entera <= 1

\* if parte_entera == 1
EsUnPeso(parte_entera) == parte_entera = 1

\* the normalized cardinal text of a finite numero
TextoNumero(numero) == NormalizarUno(Upper(num2words(IntOf(numero))))

\* the phrase built from a finite numero
Frase(numero) ==
    LET parte_entera == IntOf(numero)
        parte_decimal == ParteDecimal(numero)
        texto_numero == TextoNumero(numero)
        sufijo_centavos == SufijoCentavos(parte_decimal)
    IN  IF EsUnPeso(parte_entera)
        THEN <<"U", "N", " ", "P", "E", "S", "O", " ">> \o sufijo_centavos
        ELSE texto_numero \o <<" ", "P", "E", "S", "O", "S", " ">> \o sufijo_centavos

\* the exceptions the except clause catches
Caught == {"ValueError", "TypeError", "AttributeError"}

\* what the body of the try block ends with: a returned text or a raised exception;
\* texto_numero is the local of that name, empty when it was never assigned
Cuerpo(valor_) ==
    LET c == clean_num(valor_)
    IN  IF c.exc # "none" THEN [exc |-> c.exc, ret |-> <<>>, texto_numero |-> <<>>]
        ELSE IF c.ret = "None" THEN [exc |-> "none", ret |-> <<>>, texto_numero |-> <<>>]
        ELSE IF c.num.cls = "nan"
        THEN [exc |-> "ValueError", ret |-> <<>>, texto_numero |-> <<>>]
        ELSE IF c.num.cls \in {"inf", "-inf"}
        THEN [exc |-> "OverflowError", ret |-> <<>>, texto_numero |-> <<>>]
        ELSE [exc |-> "none", ret |-> Frase(c.num), texto_numero |-> TextoNumero(c.num)]

\* numero_a_texto(valor): the text returned, or the exception that escapes
numero_a_texto(valor_) ==
    LET b == Cuerpo(valor_)
    IN  IF b.exc \in Caught THEN [exc |-> "none", ret |-> <<>>, texto_numero |-> b.texto_numero]
        ELSE b

\* ------------------------------------------------------------- inputs of the model
InputAlphabet == {"1", "2", "9", ".", "-", "$", ",", " ", "M", "N"}

TextsUpTo(n) == UNION {[1..k -> InputAlphabet] : k \in 0..n}

SampleTexts ==
    { <<"1", ".", "9", "9", "9">>,
      <<"$", "1", ",", "2", "3", "4", ".", "5", "6">>,
      <<"1", "2", "3", "4", ".", "5", "6">>,
      <<"a", "b", "c">>,
      <<"i", "n", "f">>,
      <<"-", "I", "n", "f", "i", "n", "i", "t", "y">>,
      <<"n", "a", "n">>,
      <<"\t">>,
      <<" ", "\t", " ">>,
      <<"M", "X", "N">>,
      <<"M", ".", "N", ".">>,
      <<"M", "M", "X", "N", "N">>,
      <<"$", " ", "M", "X", "N">>,
      <<"$", "2", "1", ",", "0", "0", "0", " ", "M", ".", "N", ".">>,
      <<"+", "1", ".", "5">>,
      <<"1", ".", "2", ".", "3">> }

SampleInts == {0, 1, 2, 21, 31, 100, 101, 1000, 1001, 1523, 21000, 21021, 31000, 101000, 121000, -1, -21, -31}

\* floats as [mant, scale]: 1523.45, 1234.56, 1.999, 0.995, -1.5, 0.5, 0.005, 1.0, 21.0, -0.25
SampleFloats ==
    { Normal(152345, 2), Normal(123456, 2), Normal(1999, 3), Normal(995, 3), Normal(-15, 1),
      Normal(5, 1), Normal(5, 3), Normal(1, 0), Normal(21, 0), Normal(-25, 2), Inf, NegInf, NaN }

RawInputs ==
    {RawNone} \cup {RawStr(s) : s \in TextsUpTo(MaxLen) \cup SampleTexts}
    \cup {RawInt(n) : n \in SampleInts} \cup {RawFloat(x) : x \in SampleFloats}

NoDataset == [columns |-> <<>>, rows |-> <<>>]

NoFile == [present |-> FALSE, filename |-> <<>>, readable |-> FALSE]

NoOutcome == [exc |-> "none", ret |-> <<>>]

\* ------------------------------------------------------------- single values
\* op is the entry point that has run on the input ("start": none yet), salida what
\* it returned or raised
Init ==
    /\ op = "start"
    /\ valor \in RawInputs
    /\ salida = NoOutcome
    /\ df = NoDataset
    /\ archivo = NoFile

\* a call of clean_num
CallCleanNum ==
    /\ op = "start"
    /\ op' = "clean_num"
    /\ salida' = clean_num(valor)
    /\ UNCHANGED <<valor, df, archivo>>

\* a call of numero_a_texto
CallNumeroATexto ==
    /\ op = "start"
    /\ op' = "numero_a_texto"
    /\ salida' = numero_a_texto(valor)
    /\ UNCHANGED <<valor, df, archivo>>

\* not numero: None, "", 0 and 0.0 are false
Falsy(v) ==
    \/ v.kind = "None"
    \/ (v.kind = "str" /\ v.s = <<>>)
    \/ (v.kind \in {"int", "float"} /\ v.x.cls = "fin" /\ v.x.mant = 0)

\* POST /convertir_texto with {"numero": v}: the status and the "texto" of the response
convertir_texto(v) ==
    IF Falsy(v) THEN [status |-> 200, texto |-> <<>>]
    ELSE LET r == numero_a_texto(v)
         IN  IF r.exc # "none" THEN [status |-> 500, texto |-> <<>>]
             ELSE [status |-> 200, texto |-> r.ret]

ConvertirTexto ==
    /\ op = "start"
    /\ op' = "convertir_texto"
    /\ salida' = convertir_texto(valor)
    /\ UNCHANGED <<valor, df, archivo>>

Next ==
    \/ CallCleanNum
    \/ CallNumeroATexto
    \/ ConvertirTexto

Spec == Init /\ [][Next]_vars

\* ------------------------------------------------------------- claims on single values
EndsWith(s, p) == Len(s) >= Len(p) /\ SubSeq(s, Len(s) - Len(p) + 1, Len(s)) = p

AllSpace(s) == \A i \in 1..Len(s) : IsSpace(s[i])

IsDot(c) == c = "."

\* digits with at most one "." and at least one digit, after an optional sign
DecimalNumeral(s) ==
    LET u == IF s # <<>> /\ Head(s) \in {"+", "-"} THEN Tail(s) ELSE s
        nd == Len(SelectSeq(u, IsDigit))
        np == Len(SelectSeq(u, IsDot))
    IN  nd >= 1 /\ np <= 1 /\ nd + np = Len(u)

\* a text float() accepts
FloatLiteral(s) ==
    LET w == Strip(s)
        u == IF w # <<>> /\ Head(w) \in {"+", "-"} THEN Tail(w) ELSE w
    IN  \/ DecimalNumeral(w)
        \/ Lower(u) \in {<<"i", "n", "f">>, <<"n", "a", "n">>,
                         <<"i", "n", "f", "i", "n", "i", "t", "y">>}

Returned == op = "numero_a_texto" /\ salida.exc = "none" /\ salida.ret # <<>>

\* the clean amount of the input
Numero == clean_num(valor).num

CentsTail == <<"/", "1", "0", "0", " ", "M", ".", "N", ".">>

\* C1: numero_a_texto never raises: whatever the input, no exception leaves it.
C1_NeverRaises == op = "numero_a_texto" => salida.exc = "none"

\* C3: a non-empty phrase ends with " NN/100 M.N.", NN exactly two digits, 0 <= NN <= 99,
\* NN = round((amount - int(amount)) * 100).
C3_CentsTwoDigits ==
    Returned =>
        LET r == salida.ret
            n == Len(r)
        IN  /\ n >= 12
            /\ EndsWith(r, CentsTail)
            /\ r[n - 11] = " "
            /\ IsDigit(r[n - 10]) /\ IsDigit(r[n - 9])
            /\ DigitsVal(<<r[n - 10], r[n - 9]>>) = ParteDecimal(Numero)

UnPeso == <<"U", "N", " ", "P", "E", "S", "O", " ">>

Pesos == <<" ", "P", "E", "S", "O", "S", " ">>

\* C4: a non-empty phrase is "UN PESO <cents suffix>" exactly when the integer part is 1,
\* and "<normalized cardinal words> PESOS <cents suffix>" for every other integer part.
C4_UnPesoIffOne ==
    Returned =>
        LET suffix == Format02d(ParteDecimal(Numero)) \o CentsTail
        IN  /\ (salida.ret = UnPeso \o suffix) <=> (IntOf(Numero) = 1)
            /\ IntOf(Numero) # 1 => salida.ret = salida.texto_numero \o Pesos \o suffix

C4_Witness ==
    /\ Returned
    /\ IntOf(Numero) = 1
    /\ ParteDecimal(Numero) # 0
    /\ StartsWith(salida.ret, UnPeso)

\* an input that denotes no value: absent, only whitespace, or empty once the symbols
\* are stripped and the text trimmed
NoValueInput(v) ==
    \/ v.kind = "None"
    \/ v.kind = "str" /\ (AllSpace(v.s) \/ CleanStr(v) = <<>>)

AllOrders ==
    {p \in [1..Len(CURRENCY_SYMBOLS) -> 1..Len(CURRENCY_SYMBOLS)] :
        \A i, j \in 1..Len(CURRENCY_SYMBOLS) : i # j => p[i] # p[j]}

\* C7: stripping the symbols one after another gives the same text in every order.
C7_OrderIndependent ==
    (op = "clean_num" /\ valor.kind = "str" /\ ~IsBlankValue(valor)) =>
        \A p \in AllOrders :
            Strip(StripSymbols(Strip(valor.s), [i \in 1..Len(CURRENCY_SYMBOLS) |-> CURRENCY_SYMBOLS[p[i]]]))
                = salida.value_str

IsMark(c) == c \in {"$", ","}

NotMark(c) == ~IsMark(c)

\* the text without its currency marks and thousands separators
Unmarked(s) == SelectSeq(s, NotMark)

\* C8: for a decimal numeral s, with or without "$" and "," added to it, clean_num gives
\* the number that parsing s gives, and numero_a_texto gives what it gives for s.
C8_StrippingInert ==
    (op \in {"clean_num", "numero_a_texto"} /\ valor.kind = "str"
        /\ DecimalNumeral(Unmarked(valor.s))) =>
        IF op = "clean_num"
        THEN salida.exc = "none" /\ salida.ret = "float"
             /\ salida.num = ParseFloat(Unmarked(valor.s))
        ELSE salida = numero_a_texto(RawStr(Unmarked(valor.s)))

C8_Witness ==
    /\ op = "numero_a_texto"
    /\ valor = RawStr(<<"$", "1", ",", "2", "3", "4", ".", "5", "6">>)
    /\ salida.ret = numero_a_texto(RawFloat(Normal(123456, 2))).ret
    /\ salida.ret # <<>>

\* the words of a text, and the text of its words
RECURSIVE SplitWords(_)
SplitWords(s) ==
    IF \A i \in 1..Len(s) : s[i] # " " THEN <<s>>
    ELSE LET k == CHOOSE i \in 1..Len(s) : s[i] = " " /\ \A j \in 1..(i - 1) : s[j] # " "
         IN  <<SubSeq(s, 1, k - 1)>> \o SplitWords(SubSeq(s, k + 1, Len(s)))

RECURSIVE JoinWords(_)
JoinWords(ws) ==
    IF Len(ws) = 1 THEN ws[1] ELSE ws[1] \o <<" ">> \o JoinWords(Tail(ws))

Uno == <<"U", "N", "O">>

\* every word UNO replaced by UN, every other word kept
WholeWordUno(s) ==
    LET ws == SplitWords(s)
    IN  JoinWords([i \in 1..Len(ws) |-> IF ws[i] = Uno THEN <<"U", "N">> ELSE ws[i]])

\* UNO replaced by UN at the end of a word that a space follows, and at the start of a
\* word that a space precedes
UnoNextToSpace(s) ==
    LET ws == SplitWords(s)
        n == Len(ws)
    IN  JoinWords([i \in 1..n |->
            IF i < n /\ EndsWith(ws[i], Uno) THEN SubSeq(ws[i], 1, Len(ws[i]) - 1)
            ELSE IF i > 1 /\ StartsWith(ws[i], Uno)
                 THEN <<"U", "N">> \o SubSeq(ws[i], 4, Len(ws[i]))
                 ELSE ws[i]])

\* the upper-cased cardinal text, before the normalization
TextoCardinal == Upper(num2words(IntOf(Numero)))

Rendered == op = "numero_a_texto" /\ salida.texto_numero # <<>>

\* C9 as stated, on the texts that reach the phrase (integer part other than 1): the
\* normalization turns every whole word UNO into UN and leaves every word that only
\* contains UNO unchanged.
C9_WholeWordOnly ==
    (Rendered /\ IntOf(Numero) # 1) =>
        /\ salida.texto_numero = WholeWordUno(TextoCardinal)
        /\ salida.ret = WholeWordUno(TextoCardinal) \o Pesos \o SufijoCentavos(ParteDecimal(Numero))

\* C9 as amended: the normalization turns UNO into UN wherever a space follows it, also at
\* the end of a compound (VEINTIUNO MIL becomes VEINTIUN MIL), and wherever a space
\* precedes it; a UNO with no space on either side (the text UNO, a last word VEINTIUNO)
\* is left unchanged.
C9_UnoNextToSpace == Rendered => salida.texto_numero = UnoNextToSpace(TextoCardinal)

C9_Witness ==
    /\ Rendered
    /\ TextoCardinal = <<"V", "E", "I", "N", "T", "I", "U", "N", "O", " ", "M", "I", "L">>
    /\ salida.texto_numero = <<"V", "E", "I", "N", "T", "I", "U", "N", " ", "M", "I", "L">>

\* ------------------------------------------------------------- find_num_column
COLUMN_ALIASES == {<<"n", "u", "m", "e", "r", "o">>, <<"n", "u", "m">>}

Accented == <<"e'", "o'", "u'", "E'", "O'", "U'">>

Bases == <<"e", "o", "u", "E", "O", "U">>

\* unicodedata.normalize("NFKD", c) of one character: an accented letter is its base
\* letter and the combining accent
Decompose(c) ==
    IF \E i \in 1..Len(Accented) : Accented[i] = c
    THEN <<Bases[CHOOSE i \in 1..Len(Accented) : Accented[i] = c], "'">>
    ELSE <<c>>

RECURSIVE NFKD(_)
NFKD(s) == IF s = <<>> THEN <<>> ELSE Decompose(Head(s)) \o NFKD(Tail(s))

NotCombining(c) == c # "'"

NotSpace(c) == ~IsSpace(c)

\* normalize(text): accents dropped, whitespace removed, lower case
normalize(text) == Lower(SelectSeq(SelectSeq(NFKD(text), NotCombining), NotSpace))

NotFound == [found |-> FALSE, column |-> <<>>]

\* the same, returning the normalized label instead of the label
RECURSIVE find_num_column_normalized(_)
find_num_column_normalized(columns) ==
    IF columns = <<>> THEN NotFound
    ELSE IF normalize(Head(columns)) \in COLUMN_ALIASES
         THEN [found |-> TRUE, column |-> normalize(Head(columns))]
         ELSE find_num_column_normalized(Tail(columns))

\* find_num_column(df): the loop over df.columns; None is found = FALSE
RECURSIVE find_num_column(_)
find_num_column(columns) ==
    IF columns = <<>> THEN NotFound
    ELSE IF normalize(Head(columns)) \in COLUMN_ALIASES
         THEN [found |-> TRUE, column |-> Head(columns)]
         ELSE find_num_column(Tail(columns))

L_Numero == <<"N", "u'", "m", "e", "r", "o">>

L_NUMERO == <<"N", "U'", "M", "E", "R", "O">>

L_Num == <<"N", "u", "m">>

L_Texto == <<"T", "e", "x", "t", "o">>

L_Fecha == <<"F", "e", "c", "h", "a">>

SampleLabels ==
    { L_Numero, L_NUMERO, L_Num, L_Texto, L_Fecha,
      <<" ", " ", "N", "u", "m", " ", " ">>,
      <<"n", "u", "m", "e", "r", "o">>,
      <<"N", " ", "u'", "\t", "M">>,
      <<"n", "u", "'", "m", "e", "r", "o">>,
      <<"M", "o", "n", "t", "o">>,
      <<"N", "u", "m", "e", "r", "o", "s">>,
      <<"N", "o">>,
      <<>> }

LabelSeqs == UNION {[1..k -> SampleLabels] : k \in 0..MaxCols}

InitColumns ==
    /\ op = "start"
    /\ valor = RawNone
    /\ salida = NoOutcome
    /\ df \in {[columns |-> c, rows |-> <<>>] : c \in LabelSeqs}
    /\ archivo = NoFile

\* a call of find_num_column
CallFindNumColumn ==
    /\ op = "start"
    /\ op' = "find_num_column"
    /\ salida' = find_num_column(df.columns)
    /\ UNCHANGED <<valor, df, archivo>>

NextColumns == CallFindNumColumn

SpecColumns == InitColumns /\ [][NextColumns]_vars

\* the key of a label, letter by letter: the letter without its accent, in lower case;
\* spaces and accents give nothing
KeyChar(c) ==
    IF IsSpace(c) \/ c = "'" THEN <<>>
    ELSE IF Len(Decompose(LowerChar(c))) = 2 THEN <<Head(Decompose(LowerChar(c)))>>
    ELSE <<LowerChar(c)>>

RECURSIVE KeyOf(_)
KeyOf(label) == IF label = <<>> THEN <<>> ELSE KeyChar(Head(label)) \o KeyOf(Tail(label))

Matches(columns) == {i \in 1..Len(columns) : KeyOf(columns[i]) \in COLUMN_ALIASES}

\* C6: find_num_column returns the label, as written, of the first column whose key is an
\* alias, also when several columns match, and None exactly when no column matches.
C6_FirstMatch ==
    op = "find_num_column" =>
        LET m == Matches(df.columns)
        IN  /\ salida.found <=> m # {}
            /\ m # {} => salida.column = df.columns[CHOOSE i \in m : \A j \in m : i <= j]

C6_Witness ==
    /\ op = "find_num_column"
    /\ Cardinality(Matches(df.columns)) >= 2
    /\ salida.found
    /\ salida.column = df.columns[1]
    /\ salida.column # df.columns[2]
    /\ salida.column # normalize(salida.column)

\* ------------------------------------------------------------- validate_file
F_xlsx == <<"d", "a", "t", "o", "s", ".", "x", "l", "s", "x">>

SampleFilenames ==
    { F_xlsx,
      <<"d", ".", "X", "L", "S">>,
      <<"d", "a", "t", "o", "s">>,
      <<"d", ".", "c", "s", "v">>,
      <<"d", ".", "x", "l", "s", "x", ".", "t", "x", "t">>,
      <<>> }

ALLOWED == {<<"x", "l", "s", "x">>, <<"x", "l", "s">>}

\* filename.rsplit(".", 1)[1]: what follows the last "."
Extension(filename) ==
    LET d == CHOOSE i \in 1..Len(filename) :
                 filename[i] = "." /\ \A j \in (i + 1)..Len(filename) : filename[j] # "."
    IN  SubSeq(filename, d + 1, Len(filename))

\* validate_file(file): "" when valid, or the error
validate_file(file) ==
    IF ~file.present \/ file.filename = <<>> THEN "No se proporciono ningun archivo."
    ELSE IF \A i \in 1..Len(file.filename) : file.filename[i] # "."
    THEN "El archivo debe tener una extension valida."
    ELSE IF Lower(Extension(file.filename)) \notin ALLOWED
    THEN "Solo se permiten archivos Excel (.xlsx, .xls)."
    ELSE ""

\* ------------------------------------------------------------- convertir_excel
\* the index of a label among the columns
ColumnIndex(columns, label) == CHOOSE j \in 1..Len(columns) : columns[j] = label

\* df[col].apply(numero_a_texto): the outcome of every row, in row order
Apply(d, col) ==
    [i \in 1..Len(d.rows) |-> numero_a_texto(d.rows[i][ColumnIndex(d.columns, col)])]

\* df["Texto"] = serie: the cells of an existing column "Texto" are replaced, a missing
\* column "Texto" is appended
SetTexto(d, serie) ==
    IF \E j \in 1..Len(d.columns) : d.columns[j] = L_Texto
    THEN [columns |-> d.columns,
          rows |-> [i \in 1..Len(d.rows) |->
                        [d.rows[i] EXCEPT ![ColumnIndex(d.columns, L_Texto)] = RawStr(serie[i])]]]
    ELSE [columns |-> Append(d.columns, L_Texto),
          rows |-> [i \in 1..Len(d.rows) |-> Append(d.rows[i], RawStr(serie[i]))]]

Error(status, message) == [status |-> status, error |-> message, df |-> NoDataset]

\* POST /convertir_excel: the status and either the error or the dataset of the file sent
convertir_excel(file, d) ==
    IF ~file.present \/ file.filename = <<>> THEN Error(400, "ERROR_NO_FILE")
    ELSE IF validate_file(file) # "" THEN Error(400, validate_file(file))
    ELSE IF ~file.readable THEN Error(400, "ERROR_INVALID_EXCEL")
    ELSE LET col == find_num_column(d.columns)
         IN  IF ~col.found THEN Error(400, "ERROR_NO_COLUMN")
             ELSE LET serie == Apply(d, col.column)
                  IN  IF \E i \in 1..Len(serie) : serie[i].exc # "none"
                      THEN Error(500, "Error interno del servidor.")
                      ELSE [status |-> 200, error |-> "",
                            df |-> SetTexto(d, [i \in 1..Len(serie) |-> serie[i].ret])]

BatchLabels == {L_Num, L_NUMERO, L_Texto, L_Fecha}

\* 1, 1523.45, "abc", "inf"
BatchCells ==
    { RawInt(1), RawFloat(Normal(152345, 2)), RawStr(<<"a", "b", "c">>),
      RawStr(<<"i", "n", "f">>) }

Filler == RawStr(<<"x">>)

\* the cells a column of a generated dataset holds
CellsOf(label) ==
    IF label = L_Num THEN BatchCells
    ELSE IF label = L_NUMERO THEN {RawInt(0), RawStr(<<"a", "b", "c">>)}
    ELSE {Filler}

\* the labels of a sheet read by read_excel are distinct
ColumnSeqs ==
    {c \in UNION {[1..k -> BatchLabels] : k \in 0..MaxCols} :
        \A i, j \in 1..Len(c) : i # j => c[i] # c[j]}

RowSet(c) ==
    {row \in [1..Len(c) -> UNION {CellsOf(l) : l \in BatchLabels}] :
        \A j \in 1..Len(c) : row[j] \in CellsOf(c[j])}

Datasets ==
    UNION {{[columns |-> c, rows |-> r] : r \in UNION {[1..n -> RowSet(c)] : n \in 0..MaxRows}} :
              c \in ColumnSeqs}

GoodFile == [present |-> TRUE, filename |-> F_xlsx, readable |-> TRUE]

BadFiles ==
    {NoFile} \cup {[present |-> TRUE, filename |-> f, readable |-> FALSE] : f \in SampleFilenames}

InitExcel ==
    /\ op = "start"
    /\ valor = RawNone
    /\ salida = NoOutcome
    /\ \/ archivo = GoodFile /\ df \in Datasets
       \/ archivo \in BadFiles /\ df = NoDataset

ConvertirExcel ==
    /\ op = "start"
    /\ op' = "convertir_excel"
    /\ salida' = convertir_excel(archivo, df)
    /\ UNCHANGED <<valor, df, archivo>>

NextExcel == ConvertirExcel

SpecExcel == InitExcel /\ [][NextExcel]_vars

\* ------------------------------------------------------------- claims on the batch
Resolved ==
    /\ op = "convertir_excel"
    /\ archivo = GoodFile
    /\ \E j \in 1..Len(df.columns) : normalize(df.columns[j]) \in COLUMN_ALIASES

\* the first column whose label is an alias
ResolvedIndex ==
    CHOOSE j \in 1..Len(df.columns) :
        /\ normalize(df.columns[j]) \in COLUMN_ALIASES
        /\ \A k \in 1..(j - 1) : normalize(df.columns[k]) \notin COLUMN_ALIASES

\* where the dataset sent back has its column "Texto"
TextoIndex == ColumnIndex(salida.df.columns, L_Texto)

\* what a row's value is rendered to: its phrase, or "" when it cannot be converted
Rendering(v) ==
    IF numero_a_texto(v).exc = "none" THEN numero_a_texto(v).ret ELSE <<>>

\* C2: with a resolved column the batch runs to the end for every sequence of row values:
\* one entry per row, entry i the rendering of row i, "" for a row that cannot be converted.
C2_BatchNeverAborts ==
    Resolved =>
        /\ salida.status = 200
        /\ Len(salida.df.rows) = Len(df.rows)
        /\ \A i \in 1..Len(df.rows) :
               salida.df.rows[i][TextoIndex] = RawStr(Rendering(df.rows[i][ResolvedIndex]))

\* C10, on the datasets that have a row: the conversion only adds: every column of the
\* input is in the output with its label, position and cells, and the phrases are in a
\* column the input did not have.
C10_OnlyAdds ==
    (Resolved /\ salida.status = 200 /\ df.rows # <<>>) =>
        /\ Len(salida.df.columns) = Len(df.columns) + 1
        /\ TextoIndex = Len(df.columns) + 1
        /\ \A j \in 1..Len(df.columns) :
               /\ salida.df.columns[j] = df.columns[j]
               /\ \A i \in 1..Len(df.rows) : salida.df.rows[i][j] = df.rows[i][j]

====
